---- MODULE Spec2Model ----
(***************************************************************************)
(* ShareSafely upload gateway (01-ShareSafely-File-Share/code/server.js).  *)
(*                                                                         *)
(* The Express application is modelled as a state machine.  Several POST   *)
(* /upload requests are in flight at once; Node runs each piece of a       *)
(* handler between two awaits atomically, so one action is the code from   *)
(* one await to the next.  The Azure SDK (container client, block blob     *)
(* client, delegation key) is the environment: each call is logged when    *)
(* it is issued and completes in a later step, with success or failure.    *)
(* Strings the code inspects character by character (file names, the       *)
(* expiry setting) are sequences of one-character strings.                 *)
(***************************************************************************)
EXTENDS Integers, Sequences, FiniteSets, TLC

\* ------------------------------------------------------------------ bounds

\* Number of POST /upload requests that can be in flight together.
NumReqs == 2
\* The clock starts here (milliseconds) and advances at most MaxTicks times.
StartTime == 1000000
MaxTicks == 1
\* Number of GET /health requests answered.
MaxHealth == 1
\* Longest file name the key derivation is applied to on its own.
MaxNameLen == 2

Reqs == 1..NumReqs

\* ----------------------------------------------------------- characters

Digits == <<"0", "1", "2", "3", "4", "5", "6", "7", "8", "9">>
Lower == <<"a", "b", "c", "d", "e", "f", "g", "h", "i", "j", "k", "l", "m",
           "n", "o", "p", "q", "r", "s", "t", "u", "v", "w", "x", "y", "z">>
Upper == <<"A", "B", "C", "D", "E", "F", "G", "H", "I", "J", "K", "L", "M",
           "N", "O", "P", "Q", "R", "S", "T", "U", "V", "W", "X", "Y", "Z">>

Range(s) == {s[i] : i \in 1..Len(s)}

IsDigit(c) == c \in Range(Digits)

DigitValue(c) == (CHOOSE i \in 1..10 : Digits[i] = c) - 1

\* String.prototype.toLowerCase on one character.
\* The lower-case letter of every upper-case letter.
UpperToLower == [c \in Range(Upper) |-> Lower[CHOOSE i \in 1..26 : Upper[i] = c]]

ToLowerChar(c) == IF c \in DOMAIN UpperToLower THEN UpperToLower[c] ELSE c

toLowerCase(s) == [i \in 1..Len(s) |-> ToLowerChar(s[i])]

\* Decimal rendering of a non-negative integer inside a template literal.
RECURSIVE NumberToString(_)
NumberToString(n) ==
    IF n < 10 THEN <<Digits[n + 1]>>
    ELSE NumberToString(n \div 10) \o <<Digits[(n % 10) + 1]>>

\* ------------------------------------------------------- configuration

\* A JavaScript number that may be NaN.
NaN == [nan |-> TRUE, v |-> 0]
Num(n) == [nan |-> FALSE, v |-> n]

\* Leading run of decimal digits of s, as a number (acc carries the prefix).
RECURSIVE ParseDigits(_, _)
ParseDigits(s, acc) ==
    IF s = <<>> \/ ~IsDigit(Head(s)) THEN acc
    ELSE ParseDigits(Tail(s), acc * 10 + DigitValue(Head(s)))

RECURSIVE TrimStart(_)
TrimStart(s) ==
    IF s # <<>> /\ Head(s) = " " THEN TrimStart(Tail(s)) ELSE s

\* parseInt(s): leading blanks are skipped, an optional sign is read, then
\* the longest run of digits; NaN when there is no digit.
parseInt(s) ==
    LET t == TrimStart(s)
        neg == t # <<>> /\ Head(t) = "-"
        u == IF t # <<>> /\ Head(t) \in {"-", "+"} THEN Tail(t) ELSE t
    IN IF u = <<>> \/ ~IsDigit(Head(u)) THEN NaN
       ELSE Num(IF neg THEN 0 - ParseDigits(u, 0) ELSE ParseDigits(u, 0))

\* process.env entries: a variable is either unset or holds a string.
Unset == [set |-> FALSE, val |-> <<>>]
Value(s) == [set |-> TRUE, val |-> s]

\* JavaScript `x || d` on an environment entry: unset and "" are falsy.
OrDefault(e, d) == IF e.set /\ e.val # <<>> THEN e.val ELSE d

\* Environments the process may be started with.  The account name is always
\* set: the process exits at startup without it.
Env(account, container, expiry) ==
    [AZURE_STORAGE_ACCOUNT_NAME |-> account,
     AZURE_STORAGE_CONTAINER_NAME |-> container,
     SAS_TOKEN_EXPIRY_MINUTES |-> expiry]

Account == Value(<<"a", "c", "c", "t">>)

Envs ==
    { Env(Account, Unset, Unset),
      Env(Account, Value(<<"d", "o", "c", "s">>), Value(<<"5">>)),
      Env(Account, Value(<<>>), Value(<<>>)),
      Env(Account, Unset, Value(<<"-", "1", "0">>)),
      Env(Account, Unset, Value(<<"-", "1", "5">>)),
      Env(Account, Unset, Value(<<"a", "b", "c">>)) }

DefaultContainer ==
    <<"u", "p", "l", "o", "a", "d", "e", "d", "-", "f", "i", "l", "e", "s">>

DefaultExpiry == <<"6", "0">>

\* multer limits.fileSize
FileSizeLimit == 100 * 1024 * 1024

MsPerMinute == 60 * 1000

SkewMs == 10 * 60 * 1000

\* ------------------------------------------------------------ file names

\* Mutation of sanitize: a replaced character is escaped with "%".
sanitize_Escaped(originalFileName) ==
    [i \in 1..Len(originalFileName) |->
        IF originalFileName[i] \in Range(Lower) \cup Range(Upper) \cup Range(Digits)
                                      \cup {".", "-"}
        THEN originalFileName[i] ELSE "%"]

\* Characters String.prototype.replace(/[^a-zA-Z0-9.-]/g, '_') keeps.
KeptChars == Range(Lower) \cup Range(Upper) \cup Range(Digits) \cup {".", "-"}

sanitize(originalFileName) ==
    [i \in 1..Len(originalFileName) |->
        IF originalFileName[i] \in KeptChars THEN originalFileName[i] ELSE "_"]

\* Mutation of BlobName: the timestamp is taken in seconds.
BlobName_Seconds(timestamp, originalFileName) ==
    NumberToString(timestamp \div 1000) \o <<"-">> \o sanitize(originalFileName)

\* `${timestamp}-${sanitizedFileName}`
BlobName(timestamp, originalFileName) ==
    NumberToString(timestamp) \o <<"-">> \o sanitize(originalFileName)

\* Index of the last occurrence of c in s, 0 when there is none.
LastIndexOf(s, c) ==
    IF c \in Range(s) THEN CHOOSE i \in 1..Len(s) :
                               s[i] = c /\ \A j \in (i + 1)..Len(s) : s[j] # c
    ELSE 0

\* path.extname: from the last "." of the last path segment to its end; empty
\* when there is none or when the segment starts with its only ".".
extname(fileName) ==
    LET base == SubSeq(fileName, LastIndexOf(fileName, "/") + 1, Len(fileName))
        dot == LastIndexOf(base, ".")
    IN IF dot <= 1 THEN <<>> ELSE SubSeq(base, dot, Len(base))

\* The contentTypes table of getContentType.
contentTypes ==
    (<<".", "p", "d", "f">> :> "application/pdf")
    @@ (<<".", "d", "o", "c">> :> "application/msword")
    @@ (<<".", "d", "o", "c", "x">> :>
          "application/vnd.openxmlformats-officedocument.wordprocessingml.document")
    @@ (<<".", "x", "l", "s">> :> "application/vnd.ms-excel")
    @@ (<<".", "x", "l", "s", "x">> :>
          "application/vnd.openxmlformats-officedocument.spreadsheetml.sheet")
    @@ (<<".", "p", "p", "t">> :> "application/vnd.ms-powerpoint")
    @@ (<<".", "p", "p", "t", "x">> :>
          "application/vnd.openxmlformats-officedocument.presentationml.presentation")
    @@ (<<".", "t", "x", "t">> :> "text/plain")
    @@ (<<".", "j", "p", "g">> :> "image/jpeg")
    @@ (<<".", "j", "p", "e", "g">> :> "image/jpeg")
    @@ (<<".", "p", "n", "g">> :> "image/png")
    @@ (<<".", "g", "i", "f">> :> "image/gif")
    @@ (<<".", "z", "i", "p">> :> "application/zip")
    @@ (<<".", "r", "a", "r">> :> "application/x-rar-compressed")

\* contentTypes[ext] || 'application/octet-stream'
getContentType(fileName) ==
    LET ext == toLowerCase(extname(fileName))
    IN IF ext \in DOMAIN contentTypes THEN contentTypes[ext]
       ELSE "application/octet-stream"

\* ------------------------------------------------------------- requests

\* Original file names clients send: two that sanitize to the same string
\* and one made only of replaced characters.
FileNames ==
    { <<"a", " ", "b", ".", "T", "X", "T">>,
      <<"a", "_", "b", ".", "T", "X", "T">>,
      <<"#", "?">> }

\* Payload sizes in bytes: empty, small, at the ceiling, one byte over it.
FileSizes == {0, 1, FileSizeLimit, FileSizeLimit + 1}

FilePart(name, size) == [sent |-> TRUE, originalname |-> name, size |-> size]

\* What a client puts in the multipart body: no file part, or a file part
\* with a name and a number of bytes.
NoFilePart == [sent |-> FALSE, originalname |-> <<>>, size |-> 0]

Requests ==
    {NoFilePart}
    \cup {FilePart(<<"a", " ", "b", ".", "T", "X", "T">>, size) : size \in FileSizes}
    \cup {FilePart(name, 1) : name \in FileNames}

\* The bytes request r carries: every request's non-empty payload is its own.
Buffer(r, size) == [length |-> size, bytes |-> IF size = 0 THEN 0 ELSE r]

NoLocals ==
    [timestamp |-> 0, blobName |-> <<>>, now |-> 0,
     tenMinutesBefore |-> 0, expiryTime |-> 0]

VARIABLES
    env,                 \* process.env, as the process was started
    storageAccountName,  \* const storageAccountName
    containerName,       \* const containerName
    sasExpiryMinutes,    \* const sasExpiryMinutes
    clock,               \* the system clock Date.now() / new Date() reads
    reachable,           \* whether the storage service can be reached
    containers,          \* containers that exist in the storage account
    blobs,               \* the store: blob name -> stored object
    pc,                  \* pc[r]: where request r is
    request,             \* request[r]: what the client sent
    locals,              \* locals[r]: local constants of the two async functions
    calls,               \* calls[r]: SDK calls request r has issued, in order
    res,                 \* res[r]: responses sent for request r, in order
    health               \* responses GET /health has sent, in order

vars ==
    <<env, storageAccountName, containerName, sasExpiryMinutes, clock, reachable,
      containers, blobs, pc, request, locals, calls, res, health>>

config == <<env, storageAccountName, containerName, sasExpiryMinutes>>

Init ==
    /\ env \in Envs
    /\ storageAccountName = env.AZURE_STORAGE_ACCOUNT_NAME.val
    /\ containerName = OrDefault(env.AZURE_STORAGE_CONTAINER_NAME, DefaultContainer)
    /\ sasExpiryMinutes =
           parseInt(OrDefault(env.SAS_TOKEN_EXPIRY_MINUTES, DefaultExpiry))
    /\ clock = StartTime
    /\ reachable = TRUE
    /\ containers = {}
    /\ blobs = <<>>
    /\ pc = [r \in Reqs |-> "idle"]
    /\ request = [r \in Reqs |-> NoFilePart]
    /\ locals = [r \in Reqs |-> NoLocals]
    /\ calls = [r \in Reqs |-> <<>>]
    /\ res = [r \in Reqs |-> <<>>]
    /\ health = <<>>

\* ------------------------------------------------------------ SDK calls

\* BlobSASPermissions.parse: one permission per letter of the string.
Permission(c) ==
    CASE c = "r" -> "read"
      [] c = "a" -> "add"
      [] c = "c" -> "create"
      [] c = "w" -> "write"
      [] c = "d" -> "delete"
      [] c = "l" -> "list"
      [] OTHER -> "invalid"

BlobSASPermissionsParse(s) == {Permission(s[i]) : i \in 1..Len(s)}

\* Log records of the three SDK calls; result is "pending" until the call
\* returns ("ack") or throws ("error").
CreateCall(r) ==
    [op |-> "createIfNotExists", container |-> containerName, result |-> "pending"]

UploadCall(r, blobName) ==
    [op |-> "upload", container |-> containerName, blob |-> blobName,
     body |-> Buffer(r, request[r].size), contentLength |-> request[r].size,
     blobContentType |-> getContentType(request[r].originalname),
     result |-> "pending"]

\* The key call takes the two bounds only; blob records the blobName argument
\* of the generateUserDelegationSAS invocation that issues it.
KeyCall(blobName, startsOn, expiresOn) ==
    [op |-> "getUserDelegationKey", blob |-> blobName, startsOn |-> startsOn,
     expiresOn |-> expiresOn, result |-> "pending"]

\* The log with the result of its last (the pending) call filled in.
Settle(log, result) == [log EXCEPT ![Len(log)].result = result]

\* generateBlobSASQueryParameters(sasOptions, userDelegationKey, accountName)
generateBlobSASQueryParameters(sasOptions, userDelegationKey, accountName) ==
    [account |-> accountName,
     containerName |-> sasOptions.containerName,
     blobName |-> sasOptions.blobName,
     permissions |-> sasOptions.permissions,
     protocol |-> sasOptions.protocol,
     startsOn |-> sasOptions.startsOn,
     expiresOn |-> sasOptions.expiresOn,
     keyStartsOn |-> userDelegationKey.signedStartsOn,
     keyExpiresOn |-> userDelegationKey.signedExpiresOn]

\* new Date(now.valueOf() - (10 * 60 * 1000))
TenMinutesBefore(now) == now - SkewMs

\* Mutation of ExpiryTime: the setting is taken as seconds.
ExpiryTime_Seconds(now) == now + sasExpiryMinutes.v * 1000

\* new Date(now.valueOf() + (sasExpiryMinutes * 60 * 1000)), for a number
ExpiryTime(now) == now + sasExpiryMinutes.v * MsPerMinute

\* new Date(Date.now() + (sasExpiryMinutes * 60 * 1000)) of the handler
ExpiresAt(now) == now + sasExpiryMinutes.v * MsPerMinute

\* Mutation of SasBlobName: the name is kept in one variable all requests
\* share, so the grant is for the blob named last.
SasBlobName_Shared(r) ==
    LET named == {q \in Reqs : locals[q].blobName # <<>>}
        last == CHOOSE q \in named :
                    \A p \in named :
                        \/ locals[p].timestamp < locals[q].timestamp
                        \/ locals[p].timestamp = locals[q].timestamp /\ p <= q
    IN locals[last].blobName

\* The blob name the handler hands from uploadFileToBlob's return value to
\* generateUserDelegationSAS: its own local constant.
SasBlobName(r) == locals[r].blobName

\* blobClient.url of a blob of the configured account and container
BlobUrl(blobName) ==
    [account |-> storageAccountName, container |-> containerName, blob |-> blobName]

\* ------------------------------------------------------------ responses

\* res.status(400).json(...) of the handler
NoFileResponse ==
    [status |-> 400, body |-> [error |-> "No file uploaded. Please select a file."]]

\* res.status(500).json(...) of the handler's catch block
FailedResponse(message) ==
    [status |-> 500,
     body |-> [error |-> "Failed to upload file. Please try again.",
               details |-> message]]

\* res.status(500).json(...) of the error handling middleware
UnexpectedResponse(message) ==
    [status |-> 500,
     body |-> [error |-> "An unexpected error occurred", details |-> message]]

\* res.json(...) of the handler: the status stays 200
SuccessResponse(r, blobName, sasUrl, expiresAt) ==
    [status |-> 200,
     body |-> [success |-> TRUE,
               message |-> "File uploaded successfully!",
               fileName |-> request[r].originalname,
               blobName |-> blobName,
               sasUrl |-> sasUrl,
               expiresAt |-> expiresAt,
               expiresInMinutes |-> sasExpiryMinutes.v]]

\* res.json(...) of GET /health
HealthResponse ==
    [status |-> 200,
     body |-> [status |-> "healthy",
               storageAccount |-> storageAccountName,
               container |-> containerName,
               sasExpiryMinutes |-> sasExpiryMinutes]]

\* ------------------------------------------------------------- actions

\* Time passes.
Tick ==
    /\ clock < StartTime + MaxTicks
    /\ clock' = clock + 1
    /\ UNCHANGED <<config, reachable, containers, blobs, pc, request, locals,
                   calls, res, health>>

\* The storage service becomes unreachable, or reachable again.
Outage ==
    /\ reachable' = ~reachable
    /\ UNCHANGED <<config, clock, containers, blobs, pc, request, locals,
                   calls, res, health>>

\* Mutation of Health: the handler probes the store before answering.
Health_Probe ==
    /\ reachable
    /\ Len(health) < MaxHealth
    /\ health' = Append(health, HealthResponse)
    /\ UNCHANGED <<config, clock, reachable, containers, blobs, pc, request,
                   locals, calls, res>>

\* GET /health
Health ==
    /\ Len(health) < MaxHealth
    /\ health' = Append(health, HealthResponse)
    /\ UNCHANGED <<config, clock, reachable, containers, blobs, pc, request,
                   locals, calls, res>>

\* A client sends POST /upload; multer starts reading the body.
Receive(r, sent) ==
    /\ pc[r] = "idle"
    /\ request' = [request EXCEPT ![r] = sent]
    /\ pc' = [pc EXCEPT ![r] = "multer"]
    /\ UNCHANGED <<config, clock, reachable, containers, blobs, locals, calls,
                   res, health>>

\* Mutation of ExceedsLimit: the ceiling is twice as high.
ExceedsLimit_Doubled(r) == request[r].sent /\ request[r].size > 2 * FileSizeLimit

\* multer: the file part is larger than limits.fileSize.
ExceedsLimit(r) == request[r].sent /\ request[r].size > FileSizeLimit

\* upload.single('file') fails with LIMIT_FILE_SIZE: next(err) skips the route
\* handler and the error handling middleware answers.
UploadTooLarge(r) ==
    /\ pc[r] = "multer"
    /\ ExceedsLimit(r)
    /\ res' = [res EXCEPT ![r] = Append(@, UnexpectedResponse("File too large"))]
    /\ pc' = [pc EXCEPT ![r] = "done"]
    /\ UNCHANGED <<config, clock, reachable, containers, blobs, request, locals,
                   calls, health>>

\* Mutation of UploadNoFile: the 400 is sent without `return`, so the
\* handler goes on to uploadFileToBlob.
UploadNoFile_NoReturn(r) ==
    /\ pc[r] = "multer"
    /\ ~ExceedsLimit(r)
    /\ ~request[r].sent
    /\ res' = [res EXCEPT ![r] = Append(@, NoFileResponse)]
    /\ locals' = [locals EXCEPT
                    ![r].timestamp = clock,
                    ![r].blobName = BlobName(clock, request[r].originalname)]
    /\ calls' = [calls EXCEPT ![r] = Append(@, CreateCall(r))]
    /\ pc' = [pc EXCEPT ![r] = "createIfNotExists"]
    /\ UNCHANGED <<config, clock, reachable, containers, blobs, request, health>>

\* The handler finds no req.file.
UploadNoFile(r) ==
    /\ pc[r] = "multer"
    /\ ~ExceedsLimit(r)
    /\ ~request[r].sent
    /\ res' = [res EXCEPT ![r] = Append(@, NoFileResponse)]
    /\ pc' = [pc EXCEPT ![r] = "done"]
    /\ UNCHANGED <<config, clock, reachable, containers, blobs, request, locals,
                   calls, health>>

\* The handler calls uploadFileToBlob, which names the blob and awaits
\* containerClient.createIfNotExists().
UploadStart(r) ==
    /\ pc[r] = "multer"
    /\ ~ExceedsLimit(r)
    /\ request[r].sent
    /\ locals' = [locals EXCEPT
                    ![r].timestamp = clock,
                    ![r].blobName = BlobName(clock, request[r].originalname)]
    /\ calls' = [calls EXCEPT ![r] = Append(@, CreateCall(r))]
    /\ pc' = [pc EXCEPT ![r] = "createIfNotExists"]
    /\ UNCHANGED <<config, clock, reachable, containers, blobs, request, res,
                   health>>

\* Mutation of CreateReturn: blockBlobClient.upload is not awaited, so the
\* grant is requested while the write is pending.
CreateReturn_NoAwait(r) ==
    /\ pc[r] = "createIfNotExists"
    /\ reachable
    /\ containers' = containers \cup {containerName}
    /\ calls' = [calls EXCEPT
                   ![r] = Settle(@, "ack")
                          \o <<UploadCall(r, locals[r].blobName),
                               KeyCall(SasBlobName(r), TenMinutesBefore(clock),
                                       ExpiryTime(clock))>>]
    /\ locals' = [locals EXCEPT ![r].now = clock,
                                ![r].tenMinutesBefore = TenMinutesBefore(clock),
                                ![r].expiryTime = ExpiryTime(clock)]
    /\ pc' = [pc EXCEPT ![r] = "getUserDelegationKey"]
    /\ UNCHANGED <<config, clock, reachable, blobs, request, res, health>>

\* createIfNotExists returns; uploadFileToBlob awaits blockBlobClient.upload.
CreateReturn(r) ==
    /\ pc[r] = "createIfNotExists"
    /\ reachable
    /\ containers' = containers \cup {containerName}
    /\ calls' = [calls EXCEPT
                   ![r] = Append(Settle(@, "ack"), UploadCall(r, locals[r].blobName))]
    /\ pc' = [pc EXCEPT ![r] = "upload"]
    /\ UNCHANGED <<config, clock, reachable, blobs, request, locals, res, health>>

\* Mutation of Throw: the catch block reports the blob that was written.
Throw_Partial(r, op) ==
    /\ pc[r] = op
    /\ ~reachable
    /\ calls' = [calls EXCEPT ![r] = Settle(@, "error")]
    /\ res' = [res EXCEPT
                 ![r] = Append(@, [status |-> 500,
                                   body |-> [error |-> "Failed to upload file.",
                                             details |-> op,
                                             blobName |-> locals[r].blobName]])]
    /\ pc' = [pc EXCEPT ![r] = "done"]
    /\ UNCHANGED <<config, clock, reachable, containers, blobs, request, locals,
                   health>>

\* Mutation of Throw: the catch block deletes the blob the request wrote.
Throw_Cleanup(r, op) ==
    /\ pc[r] = op
    /\ ~reachable
    /\ calls' = [calls EXCEPT ![r] = Settle(@, "error")]
    /\ res' = [res EXCEPT ![r] = Append(@, FailedResponse(op))]
    /\ blobs' = [k \in DOMAIN blobs \ {locals[r].blobName} |-> blobs[k]]
    /\ pc' = [pc EXCEPT ![r] = "done"]
    /\ UNCHANGED <<config, clock, reachable, containers, request, locals, health>>

\* Mutation of Throw: the failed SDK call is issued again.
Throw_Retry(r, op) ==
    /\ pc[r] = op
    /\ ~reachable
    /\ calls' = [calls EXCEPT
                   ![r] = Append(Settle(@, "error"),
                                 [calls[r][Len(calls[r])] EXCEPT !.result = "pending"])]
    /\ UNCHANGED <<config, clock, reachable, containers, blobs, pc, request,
                   locals, res, health>>

\* An awaited SDK call throws: both async functions rethrow and the handler's
\* catch block answers.
Throw(r, op) ==
    /\ pc[r] = op
    /\ ~reachable
    /\ calls' = [calls EXCEPT ![r] = Settle(@, "error")]
    /\ res' = [res EXCEPT ![r] = Append(@, FailedResponse(op))]
    /\ pc' = [pc EXCEPT ![r] = "done"]
    /\ UNCHANGED <<config, clock, reachable, containers, blobs, request, locals,
                   health>>

CreateThrow(r) == Throw(r, "createIfNotExists")

UploadThrow(r) == Throw(r, "upload")

\* Mutation of KeyThrow: generateUserDelegationSAS answers the failure itself
\* before rethrowing, and the handler's catch block answers again.
KeyThrow_Twice(r) ==
    /\ pc[r] = "getUserDelegationKey"
    /\ ~reachable
    /\ calls' = [calls EXCEPT ![r] = Settle(@, "error")]
    /\ res' = [res EXCEPT
                 ![r] = @ \o <<FailedResponse("getUserDelegationKey"),
                               FailedResponse("getUserDelegationKey")>>]
    /\ pc' = [pc EXCEPT ![r] = "done"]
    /\ UNCHANGED <<config, clock, reachable, containers, blobs, request, locals,
                   health>>

KeyThrow(r) == Throw(r, "getUserDelegationKey")

\* The store acknowledges the write.  uploadFileToBlob returns blobName and
\* generateUserDelegationSAS(blobName) reads the clock once, computes the
\* two bounds and, unless toISOString() throws on an invalid date, awaits
\* blobServiceClient.getUserDelegationKey.
UploadReturn(r) ==
    /\ pc[r] = "upload"
    /\ reachable
    /\ containerName \in containers
    /\ LET blobName == SasBlobName(r)
           now == clock
           tenMinutesBefore == TenMinutesBefore(now)
           expiryTime == ExpiryTime(now)
           call == calls[r][Len(calls[r])]
       IN /\ blobs' = (call.blob :> [body |-> call.body,
                                    blobContentType |-> call.blobContentType])
                      @@ blobs
          /\ IF sasExpiryMinutes.nan
             THEN /\ calls' = [calls EXCEPT ![r] = Settle(@, "ack")]
                  /\ res' = [res EXCEPT
                               ![r] = Append(@, FailedResponse("Invalid time value"))]
                  /\ pc' = [pc EXCEPT ![r] = "done"]
                  /\ locals' = [locals EXCEPT ![r].now = now,
                                              ![r].tenMinutesBefore = tenMinutesBefore]
             ELSE /\ calls' = [calls EXCEPT
                                 ![r] = Append(Settle(@, "ack"),
                                               KeyCall(blobName, tenMinutesBefore,
                                                       expiryTime))]
                  /\ res' = res
                  /\ pc' = [pc EXCEPT ![r] = "getUserDelegationKey"]
                  /\ locals' = [locals EXCEPT ![r].now = now,
                                              ![r].tenMinutesBefore = tenMinutesBefore,
                                              ![r].expiryTime = expiryTime]
    /\ UNCHANGED <<config, clock, reachable, containers, request, health>>

\* The delegation key arrives.  generateUserDelegationSAS signs the read
\* grant and returns the URL; the handler reads the clock for expiresAt and
\* answers.
KeyReturn(r) ==
    /\ pc[r] = "getUserDelegationKey"
    /\ reachable
    /\ LET call == calls[r][Len(calls[r])]
           userDelegationKey == [signedStartsOn |-> call.startsOn,
                                 signedExpiresOn |-> call.expiresOn]
           blobName == SasBlobName(r)
           sasOptions == [containerName |-> containerName,
                          blobName |-> blobName,
                          permissions |-> BlobSASPermissionsParse(<<"r">>),
                          protocol |-> "https",
                          startsOn |-> locals[r].tenMinutesBefore,
                          expiresOn |-> locals[r].expiryTime]
           sasToken == generateBlobSASQueryParameters(sasOptions, userDelegationKey,
                                                      storageAccountName)
           sasUrl == [url |-> BlobUrl(blobName), sas |-> sasToken]
           expiresAt == ExpiresAt(clock)
       IN res' = [res EXCEPT
                    ![r] = Append(@, SuccessResponse(r, blobName, sasUrl, expiresAt))]
    /\ calls' = [calls EXCEPT ![r] = Settle(@, "ack")]
    /\ pc' = [pc EXCEPT ![r] = "done"]
    /\ UNCHANGED <<config, clock, reachable, containers, blobs, request, locals,
                   health>>

Next ==
    \/ Tick
    \/ Outage
    \/ Health
    \/ \E r \in Reqs : \E sent \in Requests : Receive(r, sent)
    \/ \E r \in Reqs : UploadTooLarge(r)
    \/ \E r \in Reqs : UploadNoFile(r)
    \/ \E r \in Reqs : UploadStart(r)
    \/ \E r \in Reqs : CreateReturn(r)
    \/ \E r \in Reqs : CreateThrow(r)
    \/ \E r \in Reqs : UploadReturn(r)
    \/ \E r \in Reqs : UploadThrow(r)
    \/ \E r \in Reqs : KeyReturn(r)
    \/ \E r \in Reqs : KeyThrow(r)

Spec == Init /\ [][Next]_vars

\* --------------------------------------------------------------- claims

\* Positions in request r's call log of the calls of one SDK operation.
CallsOf(r, op) == {i \in 1..Len(calls[r]) : calls[r][i].op = op}

Failed(r) == \E i \in 1..Len(calls[r]) : calls[r][i].result = "error"

\* Request r was answered with the success response.
Succeeded(r) == pc[r] = "done" /\ Len(res[r]) = 1 /\ res[r][1].status = 200

\* The signed grant in the success response of request r.
Grant(r) == res[r][1].body.sasUrl.sas

\* C1: within a request the delegation key for a blob is requested only
\* after the upload of that same blob was acknowledged: at the time of the
\* request no earlier call of the request is pending or has failed.
C1_GrantAfterWriteAck ==
    \A r \in Reqs : \A i \in CallsOf(r, "getUserDelegationKey") :
        /\ \E j \in 1..(i - 1) :
              /\ calls[r][j].op = "upload"
              /\ calls[r][j].result = "ack"
              /\ calls[r][j].blob = calls[r][i].blob
        /\ \A j \in 1..(i - 1) : calls[r][j].result = "ack"
        /\ calls[r][i].blob \in DOMAIN blobs

C1_Witness ==
    \E r \in Reqs :
        /\ pc[r] = "getUserDelegationKey"
        /\ calls[r][Len(calls[r])].result = "pending"
        /\ \E q \in Reqs : q # r /\ pc[q] = "upload"

\* C2: a POST /upload without a file is answered 400 with an error body and
\* issues no SDK call at all.
C2_NoFileRejected ==
    \A r \in Reqs :
        (pc[r] # "idle" /\ ~request[r].sent) =>
            /\ calls[r] = <<>>
            /\ pc[r] = "done" =>
                  /\ Len(res[r]) = 1
                  /\ res[r][1].status = 400
                  /\ DOMAIN res[r][1].body = {"error"}

C2_Witness ==
    \E r \in Reqs : pc[r] = "done" /\ ~request[r].sent /\ res[r][1].status = 400

\* C3: a POST /upload whose file is present but has zero bytes is answered
\* 400 and no upload call is issued for it.
C3_EmptyRejected ==
    \A r \in Reqs :
        (request[r].sent /\ request[r].size = 0) =>
            /\ CallsOf(r, "upload") = {}
            /\ pc[r] = "done" => res[r][1].status = 400

\* C4: a request whose file exceeds the 100 MiB ceiling is rejected and
\* neither the upload nor the delegation key is ever requested for it.
C4_OversizeNoStore ==
    \A r \in Reqs :
        (pc[r] # "idle" /\ request[r].sent /\ request[r].size > 100 * 1024 * 1024) =>
            /\ CallsOf(r, "upload") = {}
            /\ CallsOf(r, "getUserDelegationKey") = {}
            /\ pc[r] \in {"multer", "done"}
            /\ pc[r] = "done" =>
                  /\ Len(res[r]) = 1
                  /\ res[r][1].status >= 400
                  /\ "sasUrl" \notin DOMAIN res[r][1].body

C4_Witness ==
    \E r \in Reqs :
        /\ pc[r] = "done"
        /\ request[r].size = 100 * 1024 * 1024 + 1
        /\ res[r][1].status >= 400
        /\ \E q \in Reqs : Succeeded(q) /\ request[q].size = 100 * 1024 * 1024

\* C5: a request whose file exceeds the ceiling is answered 413, not the 500
\* of a failed store or grant call.
C5_Oversize413 ==
    \A r \in Reqs :
        (pc[r] = "done" /\ request[r].sent /\ request[r].size > 100 * 1024 * 1024) =>
            res[r][1].status = 413

\* Request r got its delegation key.
KeyIssued(r) ==
    \E i \in CallsOf(r, "getUserDelegationKey") : calls[r][i].result = "ack"

\* C6: the success response (success, sasUrl) is sent only when the upload
\* and the delegation key call both succeeded; when createIfNotExists, the
\* upload or the grant issuance failed, the one response is a 500 with an
\* error body and neither sasUrl nor blobName.
C6_AllOrNothing ==
    \A r \in Reqs :
        /\ \A k \in 1..Len(res[r]) :
              (\/ res[r][k].status = 200
               \/ DOMAIN res[r][k].body \cap {"success", "sasUrl", "blobName"} # {}) =>
                  /\ \E i \in CallsOf(r, "upload") : calls[r][i].result = "ack"
                  /\ \E i \in CallsOf(r, "getUserDelegationKey") :
                        calls[r][i].result = "ack"
                  /\ ~Failed(r)
                  /\ res[r][k].body.success
                  /\ "sasUrl" \in DOMAIN res[r][k].body
        /\ (Failed(r) \/ (pc[r] = "done" /\ calls[r] # <<>> /\ ~KeyIssued(r))) =>
              /\ pc[r] = "done"
              /\ Len(res[r]) = 1
              /\ res[r][1].status = 500
              /\ "error" \in DOMAIN res[r][1].body
              /\ DOMAIN res[r][1].body \cap {"success", "sasUrl", "blobName"} = {}

C6_Witness ==
    \E r, q \in Reqs :
        /\ Succeeded(r)
        /\ pc[q] = "done"
        /\ \E i \in CallsOf(q, "getUserDelegationKey") : calls[q][i].result = "error"
        /\ res[q][1].status = 500

\* C7: no object is ever deleted: every blob whose upload was acknowledged
\* is in the store, also when the request then failed to get its grant and
\* was answered 500.  (Its name is in the store; it holds the bytes of an
\* acknowledged upload under that name.)
C7_NeverDeleted ==
    \A r \in Reqs : \A i \in CallsOf(r, "upload") :
        calls[r][i].result = "ack" =>
            /\ calls[r][i].blob \in DOMAIN blobs
            /\ \E q \in Reqs : \E j \in CallsOf(q, "upload") :
                  /\ calls[q][j].result = "ack"
                  /\ calls[q][j].blob = calls[r][i].blob
                  /\ blobs[calls[r][i].blob].body = calls[q][j].body

C7_Witness ==
    \E r \in Reqs :
        /\ pc[r] = "done"
        /\ res[r][1].status = 500
        /\ \E i \in CallsOf(r, "upload") :
              calls[r][i].result = "ack" /\ calls[r][i].blob \in DOMAIN blobs
        /\ \E i \in CallsOf(r, "getUserDelegationKey") : calls[r][i].result = "error"
        /\ \A q \in Reqs : pc[q] = "done"

\* Every grant carries the read permission only and names exactly the blob
\* its own request uploaded, whatever other requests are in flight.
GrantScope ==
    \A r \in Reqs : \A k \in 1..Len(res[r]) :
        "sasUrl" \in DOMAIN res[r][k].body =>
            LET body == res[r][k].body
                sas == body.sasUrl.sas
            IN /\ sas.permissions = {"read"}
               /\ sas.containerName = containerName
               /\ body.sasUrl.url.container = containerName
               /\ body.sasUrl.url.blob = sas.blobName
               /\ body.blobName = sas.blobName
               /\ sas.blobName = BlobName(locals[r].timestamp, request[r].originalname)
               /\ \E i \in CallsOf(r, "upload") :
                     /\ calls[r][i].result = "ack"
                     /\ calls[r][i].blob = sas.blobName
                     /\ calls[r][i].body = Buffer(r, request[r].size)
               /\ \A i \in CallsOf(r, "upload") : calls[r][i].blob = sas.blobName

\* Request q's upload of the blob was acknowledged by the store.
Wrote(q, blobName) ==
    \E i \in CallsOf(q, "upload") :
        calls[q][i].result = "ack" /\ calls[q][i].blob = blobName

\* C8: every grant carries the read permission only and is scoped to
\* exactly the one blob its own request wrote, under any interleaving, so
\* no response carries a grant for a blob a different request wrote.
C8_GrantOwnBlobOnly ==
    /\ GrantScope
    /\ \A r \in Reqs :
          Succeeded(r) => \A q \in Reqs \ {r} : ~Wrote(q, Grant(r).blobName)

\* Two requests served side by side were each granted their own blob.
GrantScopeReached ==
    \E r, q \in Reqs :
        /\ Succeeded(r)
        /\ Succeeded(q)
        /\ Grant(r).blobName # Grant(q).blobName
        /\ locals[r].timestamp < locals[q].timestamp
        /\ locals[q].timestamp <= locals[r].now

\* A grant names a blob another request wrote only when both requests read
\* the same millisecond and their file names sanitize to the same string.
ForeignGrantOnlyOnCollision ==
    \A r \in Reqs :
        Succeeded(r) =>
            \A q \in Reqs \ {r} :
                Wrote(q, Grant(r).blobName) =>
                    /\ locals[q].timestamp = locals[r].timestamp
                    /\ sanitize(request[q].originalname)
                          = sanitize(request[r].originalname)

\* The bounds of the grant of request r are those of one clock reading T and
\* of the configured expiry N, for the signed grant and the delegation key.
WindowOf(r, T, N) ==
    /\ Grant(r).startsOn = T - 10 * 60 * 1000
    /\ Grant(r).expiresOn = T + N * 60 * 1000
    /\ Grant(r).expiresOn - Grant(r).startsOn = (N + 10) * 60 * 1000
    /\ Grant(r).keyStartsOn = Grant(r).startsOn
    /\ Grant(r).keyExpiresOn = Grant(r).expiresOn
    /\ \E i \in CallsOf(r, "getUserDelegationKey") :
          /\ calls[r][i].startsOn = Grant(r).startsOn
          /\ calls[r][i].expiresOn = Grant(r).expiresOn

\* The expiry in minutes the environment configures: the digits of the
\* setting, 60 when it is unset or empty.
ConfiguredExpiry ==
    LET e == env.SAS_TOKEN_EXPIRY_MINUTES
    IN IF ~e.set \/ e.val = <<>> THEN [nan |-> FALSE, v |-> 60]
       ELSE parseInt(e.val)

\* T is a reading of the clock taken while request r was being served.
ClockReading(r, T) == locals[r].timestamp <= T /\ T <= clock

\* C9 as stated: for every configured expiry N each grant has validFrom =
\* T - 10 min and validUntil = T + N min for one clock reading T, validFrom is
\* strictly before validUntil, the window is N + 10 minutes, and the
\* delegation key has the same bounds.
C9_WindowStrict ==
    \A r \in Reqs :
        Succeeded(r) =>
            /\ ~ConfiguredExpiry.nan
            /\ sasExpiryMinutes = ConfiguredExpiry
            /\ ClockReading(r, locals[r].now)
            /\ WindowOf(r, locals[r].now, ConfiguredExpiry.v)
            /\ Grant(r).startsOn < Grant(r).expiresOn

\* C9 amended: the same bounds and window length for every configured
\* expiry N that is a number; validFrom is strictly before validUntil exactly
\* when N > -10, and a setting that is not a number issues no grant.
C9_Window ==
    \A r \in Reqs :
        /\ Succeeded(r) =>
              /\ ~ConfiguredExpiry.nan
              /\ sasExpiryMinutes = ConfiguredExpiry
              /\ ClockReading(r, locals[r].now)
              /\ WindowOf(r, locals[r].now, ConfiguredExpiry.v)
              /\ (Grant(r).startsOn < Grant(r).expiresOn) <=> (ConfiguredExpiry.v > -10)
        /\ ConfiguredExpiry.nan => CallsOf(r, "getUserDelegationKey") = {}

C9_Witness ==
    \E r, q \in Reqs :
        /\ Succeeded(r)
        /\ ConfiguredExpiry.v = 60
        /\ ~env.SAS_TOKEN_EXPIRY_MINUTES.set
        /\ locals[r].now < clock
        /\ Succeeded(q)
        /\ locals[q].now # locals[r].now

C9_WitnessInverted ==
    \E r \in Reqs : Succeeded(r) /\ ConfiguredExpiry.v <= -10

\* The health responses sent so far carry status 200 and the configured
\* account, container and expiry; the configuration is what the environment
\* set at startup; GET /health can be answered in every state.
C10_HealthState ==
    /\ \A i \in 1..Len(health) :
          /\ health[i].status = 200
          /\ health[i].body.storageAccount = env.AZURE_STORAGE_ACCOUNT_NAME.val
          /\ health[i].body.container =
                (IF env.AZURE_STORAGE_CONTAINER_NAME.set
                    /\ env.AZURE_STORAGE_CONTAINER_NAME.val # <<>>
                 THEN env.AZURE_STORAGE_CONTAINER_NAME.val
                 ELSE DefaultContainer)
          /\ health[i].body.sasExpiryMinutes = ConfiguredExpiry
    /\ storageAccountName = env.AZURE_STORAGE_ACCOUNT_NAME.val
    /\ sasExpiryMinutes = ConfiguredExpiry
    /\ Len(health) < MaxHealth => ENABLED Health

\* A step that answers GET /health issues no SDK call and touches neither
\* the store nor any upload request; no step changes the configuration.
C10_HealthStep ==
    /\ config' = config
    /\ health' # health =>
          /\ Len(health') = Len(health) + 1
          /\ UNCHANGED <<calls, containers, blobs, pc, request, locals, res>>

\* C10: GET /health always answers 200 with the configured account,
\* container and expiry, issues no SDK call, answers the same after any
\* uploads and whether or not the store is reachable; no handler changes
\* the configuration.
C10_Health == []C10_HealthState /\ [][C10_HealthStep]_vars

C10_Witness ==
    /\ Len(health) = 1
    /\ ~reachable
    /\ \E r, q \in Reqs : Succeeded(r) /\ Failed(q) /\ pc[q] = "done"

\* ------------------------------------------------- the key derivation

\* Characters of the file names the derivation is applied to: kept ones, the
\* replacement character itself, and replaced ones.
NameAlphabet == {"a", "Z", "7", ".", "-", "_", " ", "/"}

\* Every string over the alphabet of at most MaxNameLen characters, the
\* empty string included.
AllNames == UNION {[1..k -> NameAlphabet] : k \in 0..MaxNameLen}

\* uploadFileToBlob is entered with an arbitrary originalFileName.
InitKey ==
    /\ Init
    /\ env = Env(Account, Unset, Unset)

Enter(name) ==
    /\ pc[1] = "idle"
    /\ request' = [request EXCEPT ![1] = FilePart(name, 1)]
    /\ pc' = [pc EXCEPT ![1] = "uploadFileToBlob"]
    /\ UNCHANGED <<config, clock, reachable, containers, blobs, locals, calls,
                   res, health>>

\* The first three statements of uploadFileToBlob: timestamp,
\* sanitizedFileName, blobName.
NameBlob ==
    /\ pc[1] = "uploadFileToBlob"
    /\ locals' = [locals EXCEPT
                    ![1].timestamp = clock,
                    ![1].blobName = BlobName(clock, request[1].originalname)]
    /\ pc' = [pc EXCEPT ![1] = "named"]
    /\ UNCHANGED <<config, clock, reachable, containers, blobs, request, calls,
                   res, health>>

NextKey ==
    \/ Tick
    \/ \E name \in AllNames : Enter(name)
    \/ NameBlob

SpecKey == InitKey /\ [][NextKey]_vars

\* s matches ^[0-9]+-[A-Za-z0-9._-]+$
MatchesKeyPattern(s) ==
    \E i \in 2..(Len(s) - 1) :
        /\ \A j \in 1..(i - 1) : s[j] \in Range(Digits)
        /\ s[i] = "-"
        /\ \A j \in (i + 1)..Len(s) :
              s[j] \in Range(Lower) \cup Range(Upper) \cup Range(Digits)
                       \cup {".", "_", "-"}

\* The part of a blob name after the digits of the timestamp and the "-".
NamePart(blobName) ==
    LET i == CHOOSE k \in 1..Len(blobName) :
                 blobName[k] = "-" /\ \A j \in 1..(k - 1) : blobName[j] # "-"
    IN SubSeq(blobName, i + 1, Len(blobName))

\* C11 as stated: for every original file name, the empty one included, the
\* derived blob name matches ^[0-9]+-[A-Za-z0-9._-]+$, and sanitizing the
\* sanitized name returns it unchanged.
C11_KeyPatternAll ==
    pc[1] = "named" =>
        /\ MatchesKeyPattern(locals[1].blobName)
        /\ sanitize(NamePart(locals[1].blobName)) = NamePart(locals[1].blobName)

\* C11 amended: the derivation is total and the sanitization idempotent; the
\* blob name matches the pattern for every file name that is not empty, and
\* for the empty name it is the timestamp followed by "-" alone.
C11_KeyPattern ==
    pc[1] = "named" =>
        LET name == request[1].originalname
            blobName == locals[1].blobName
        IN /\ Len(blobName) = Len(NumberToString(locals[1].timestamp)) + 1 + Len(name)
           /\ sanitize(NamePart(blobName)) = NamePart(blobName)
           /\ Len(NamePart(blobName)) = Len(name)
           /\ \A i \in 1..Len(name) :
                 NamePart(blobName)[i] =
                    (IF name[i] \in {"a", "Z", "7", ".", "-"} THEN name[i] ELSE "_")
           /\ name # <<>> => MatchesKeyPattern(blobName)
           /\ name = <<>> => ~MatchesKeyPattern(blobName)

C11_Witness ==
    /\ pc[1] = "named"
    /\ request[1].originalname = <<" ", "/">>
    /\ locals[1].blobName = <<"1", "0", "0", "0", "0", "0", "1", "-", "_", "_">>

\* ------------------------------------------------------ later claims

\* Request r has entered uploadFileToBlob and named its blob.
Named(r) == locals[r].blobName # <<>>

\* C12: two uploads of the same original file name whose timestamps differ,
\* by as little as 1 ms, are written under distinct blob names: neither
\* writes the other's blob, and once both writes are acknowledged both blobs
\* are in the store.
C12_DistinctKeys ==
    \A r, q \in Reqs :
        (/\ r # q
         /\ Named(r)
         /\ Named(q)
         /\ request[r].originalname = request[q].originalname
         /\ locals[r].timestamp # locals[q].timestamp) =>
            /\ locals[r].blobName # locals[q].blobName
            /\ \A i \in CallsOf(q, "upload") : calls[q][i].blob # locals[r].blobName
            /\ (Wrote(r, locals[r].blobName) /\ Wrote(q, locals[q].blobName)) =>
                  /\ {locals[r].blobName, locals[q].blobName} \subseteq DOMAIN blobs
                  /\ ~Wrote(q, locals[r].blobName)

C12_Witness ==
    \E r, q \in Reqs :
        /\ request[r].originalname = request[q].originalname
        /\ locals[q].timestamp = locals[r].timestamp + 1
        /\ Wrote(r, locals[r].blobName)
        /\ Wrote(q, locals[q].blobName)
        /\ locals[r].blobName # locals[q].blobName
        /\ {locals[r].blobName, locals[q].blobName} \subseteq DOMAIN blobs
        /\ blobs[locals[r].blobName].body = Buffer(r, 1)
        /\ blobs[locals[q].blobName].body = Buffer(q, 1)

\* C13: no error is retried: a request issues at most one upload call and at
\* most one delegation key call (and one createIfNotExists), and a call that
\* failed is the last call the request ever issues.
C13_NoRetry ==
    \A r \in Reqs :
        /\ Cardinality(CallsOf(r, "upload")) <= 1
        /\ Cardinality(CallsOf(r, "getUserDelegationKey")) <= 1
        /\ Cardinality(CallsOf(r, "createIfNotExists")) <= 1
        /\ \A i \in 1..Len(calls[r]) :
              calls[r][i].result = "error" => (i = Len(calls[r]) /\ pc[r] = "done")
        /\ pc[r] = "done" => \A i \in 1..Len(calls[r]) : calls[r][i].result # "pending"

C13_Witness ==
    \E r, q \in Reqs :
        /\ pc[r] = "done"
        /\ pc[q] = "done"
        /\ Len(calls[r]) = 2
        /\ calls[r][2].op = "upload"
        /\ calls[r][2].result = "error"
        /\ Len(calls[q]) = 3
        /\ calls[q][3].op = "getUserDelegationKey"
        /\ calls[q][3].result = "error"
        /\ reachable

\* One step of request r: multer finishes, or the SDK call the request
\* awaits returns or throws.
Step(r) ==
    \/ UploadTooLarge(r)
    \/ UploadNoFile(r)
    \/ UploadStart(r)
    \/ CreateReturn(r)
    \/ CreateThrow(r)
    \/ UploadReturn(r)
    \/ UploadThrow(r)
    \/ KeyReturn(r)
    \/ KeyThrow(r)

\* The event loop runs every continuation that is ready, and every SDK call
\* eventually returns or throws.
FairEnvs ==
    { Env(Account, Unset, Unset),
      Env(Account, Unset, Value(<<"a", "b", "c">>)) }

InitFair ==
    /\ Init
    /\ env \in FairEnvs

SpecFair == InitFair /\ [][Next]_vars /\ \A r \in Reqs : WF_vars(Step(r))

\* At most one response per request, of status 200, 400 or 500, sent exactly
\* when the request is done.
OneResponse ==
    \A r \in Reqs :
        /\ Len(res[r]) <= 1
        /\ (Len(res[r]) = 1) <=> (pc[r] = "done")
        /\ \A k \in 1..Len(res[r]) : res[r][k].status \in {200, 400, 500}

\* C14: provided every SDK call eventually returns or throws, every received
\* POST /upload eventually gets exactly one response (400, 500 or 200), never
\* none and never two, whatever the other requests do.
C14_ExactlyOneResponse ==
    /\ []OneResponse
    /\ [][\A r \in Reqs : Len(res[r]) = 1 => res'[r] = res[r]]_vars
    /\ \A r \in Reqs : (pc[r] = "multer") ~> (pc[r] = "done" /\ Len(res[r]) = 1)

C14_Witness ==
    \E r, q \in Reqs :
        /\ pc[r] = "done"
        /\ pc[q] = "done"
        /\ Len(res[r]) = 1
        /\ Len(res[q]) = 1
        /\ res[r][1].status = 200
        /\ res[q][1].status = 400
        /\ locals[r].timestamp < locals[r].now

\* C15: on every successful upload the expiresAt of the response equals the
\* validUntil of the grant issued for that request, which is the request's
\* clock reading plus the configured window.
C15_ExpiresAtIsValidUntil ==
    \A r \in Reqs :
        Succeeded(r) =>
            /\ res[r][1].body.expiresAt = Grant(r).expiresOn
            /\ Grant(r).expiresOn = locals[r].now + ConfiguredExpiry.v * 60 * 1000

\* The reported expiresAt is never before the grant's validUntil, and is
\* later by exactly the time the clock advanced while the delegation key was
\* awaited.
ExpiresAtNotBefore ==
    \A r \in Reqs :
        Succeeded(r) =>
            /\ res[r][1].body.expiresAt >= Grant(r).expiresOn
            /\ res[r][1].body.expiresAt - Grant(r).expiresOn <= clock - locals[r].now
            /\ Grant(r).expiresOn = locals[r].now + ConfiguredExpiry.v * 60 * 1000

ExpiresAtLater ==
    \E r \in Reqs :
        Succeeded(r) /\ res[r][1].body.expiresAt > Grant(r).expiresOn

\* The blob stored under the blobName of request r's response holds the
\* bytes request r sent.
HoldsOwnBytes(r) ==
    LET blobName == res[r][1].body.blobName
    IN /\ blobName \in DOMAIN blobs
       /\ blobs[blobName].body = Buffer(r, request[r].size)

\* C16: under any interleaving, at the moment a success response is sent the
\* blob stored under its blobName holds exactly the bytes that request
\* uploaded, and no stored blob is overwritten by another request.
C16_NoOverwrite ==
    /\ [][\A r \in Reqs : (~Succeeded(r) /\ Succeeded(r)') => HoldsOwnBytes(r)']_vars
    /\ [][\A name \in DOMAIN blobs : blobs'[name] = blobs[name]]_vars

\* When a success response is sent, the blob under its blobName holds the
\* bytes of a request that computed that name, the own request's unless another
\* request read the same millisecond with a file name that sanitizes to the
\* same string.
OwnBytesUnlessCollision ==
    \A r \in Reqs :
        Succeeded(r) =>
            \/ HoldsOwnBytes(r)
            \/ \E q \in Reqs \ {r} :
                  /\ locals[q].timestamp = locals[r].timestamp
                  /\ sanitize(request[q].originalname) = sanitize(request[r].originalname)
                  /\ Wrote(q, res[r][1].body.blobName)

Overwritten ==
    \E r \in Reqs : Succeeded(r) /\ ~HoldsOwnBytes(r)

====
